---- MODULE Spec2Model ----
(***************************************************************************)
(* Model of tools/docx_chunker.py: the line scanner chunk_by_articles, the *)
(* oversize splitter split_article_content with its helpers, and the part  *)
(* of main that consumes the chunk list.                                   *)
(*                                                                         *)
(* Text is a sequence of one-character strings, addressed by 0-based       *)
(* offsets as in the source.  The keywords are single letters of the       *)
(* model alphabet: "D"/"d" is the article keyword, "C"/"c" the chapter     *)
(* keyword, "K"/"k" the clause keyword of QUOTED_TITLE_RE, "x" a roman     *)
(* numeral letter, "1" and "2" digits, "a" any other letter, "q" and "Q"   *)
(* the curly quotes; the straight double quote is itself.                  *)
(* MAX_CONTENT_LEN is 1500 in the source; every length of the model is     *)
(* scaled to the small threshold below, all comparisons are kept.          *)
(***************************************************************************)
EXTENDS Integers, Sequences, FiniteSets, TLC

VARIABLES lines, i, current_chapter, current_article_full, current_body,
          chunks, end_reached, pc,
          sl_text, sl_limit, sl_i, sl_parts,
          art_idx, flushes, offs

vars == <<lines, i, current_chapter, current_article_full, current_body,
          chunks, end_reached, pc, sl_text, sl_limit, sl_i, sl_parts,
          art_idx, flushes, offs>>

\* ---------------------------------------------------------------- bounds
MAX_CONTENT_LEN == 11
MaxLines == 4
MaxBodyLen == 6
MaxTextLen == 5
MaxIter == 4

\* ------------------------------------------------------- text primitives
\* None where a string is expected, and None where a match or tuple is
None == <<"<None>">>
NoMatch == [matched |-> FALSE]

WS == {" ", "\n", "\t"}
DIGITS == {"1", "2"}
ROMAN == {"x"}

MinOf(a, b) == IF a < b THEN a ELSE b
SetMax(S) == CHOOSE m \in S : \A k \in S : k <= m
SetMin(S) == CHOOSE m \in S : \A k \in S : m <= k

\* a Python slice bound, clamped into 0..n (negative bounds count from the end)
PyIdx(k, n) == IF k < 0 THEN (IF n + k < 0 THEN 0 ELSE n + k)
               ELSE (IF k > n THEN n ELSE k)

\* the characters at the 0-based offsets lo..hi-1
Between(s, lo, hi) == IF lo >= hi THEN <<>> ELSE SubSeq(s, lo + 1, hi)

\* text[a:b]
Slice(s, a, b) == Between(s, PyIdx(a, Len(s)), PyIdx(b, Len(s)))

\* the largest (smallest) offset of a set of offsets, -1 if there is none
LastOf(found) == IF found = {} THEN -1 ELSE SetMax(found)
FirstOf(found) == IF found = {} THEN -1 ELSE SetMin(found)

\* text.rfind(c, a, b)
RFind(s, c, a, b) ==
  LastOf({k \in PyIdx(a, Len(s))..(PyIdx(b, Len(s)) - 1) : s[k + 1] = c})

\* text.find(c, a)
Find(s, c, a) ==
  FirstOf({k \in PyIdx(a, Len(s))..(Len(s) - 1) : s[k + 1] = c})

\* offset of the first character at or after p that is not in the class
SkipClass(s, p, class) ==
  IF \A k \in p..(Len(s) - 1) : s[k + 1] \in class
  THEN (IF p > Len(s) THEN p ELSE Len(s))
  ELSE SetMin({k \in p..(Len(s) - 1) : s[k + 1] \notin class})

LStripOf(s, class) == Between(s, SkipClass(s, 0, class), Len(s))

RStripOf(s, class) ==
  IF \A k \in 1..Len(s) : s[k] \in class THEN <<>>
  ELSE SubSeq(s, 1, SetMax({k \in 1..Len(s) : s[k] \notin class}))

\* str.strip(), str.rstrip(), str.strip("\n")
Strip(s) == LStripOf(RStripOf(s, WS), WS)
RStrip(s) == RStripOf(s, WS)
StripNL(s) == LStripOf(RStripOf(s, {"\n"}), {"\n"})

IsPrefix(p, s) == Len(p) <= Len(s) /\ SubSeq(s, 1, Len(p)) = p

\* does pat occur in s at offset k
OccursAt(s, pat, k) ==
  k >= 0 /\ k + Len(pat) <= Len(s) /\ SubSeq(s, k + 1, k + Len(pat)) = pat

IsSubstring(pat, s) == \E k \in 0..Len(s) : OccursAt(s, pat, k)

\* "\n".join(seq)
RECURSIVE JoinNL(_)
JoinNL(ls) ==
  IF ls = <<>> THEN <<>>
  ELSE IF Len(ls) = 1 THEN ls[1]
  ELSE ls[1] \o <<"\n">> \o JoinNL(Tail(ls))

\* ------------------------------------------------------ header grammars
\* "(.*)$" on the text rest: `.` stops at a line break, `$` also matches
\* before one final line break; None when it cannot reach the end
TitleGroup(rest) ==
  IF rest # <<>> /\ rest[Len(rest)] = "\n"
  THEN (IF \E k \in 1..(Len(rest) - 1) : rest[k] = "\n" THEN None
        ELSE SubSeq(rest, 1, Len(rest) - 1))
  ELSE (IF \E k \in 1..Len(rest) : rest[k] = "\n" THEN None ELSE rest)

\* "\s*(?P<title>.*)$" from offset p
TitleOf(s, p) == TitleGroup(Between(s, SkipClass(s, p, WS), Len(s)))

\* "[:\.]?" at offset p: the offset after it
AfterMark(s, p) == IF p < Len(s) /\ s[p + 1] \in {":", "."} THEN p + 1 ELSE p

\* the keyword at offset p0 and "\s+" after it
KeywordAt(line, p0, keyword) ==
  /\ p0 < Len(line)
  /\ line[p0 + 1] \in keyword
  /\ SkipClass(line, p0 + 1, WS) > p0 + 1

\* CHAPTER_RE from the number at p2 on, which ends at p3
ChapterGroups(line, p2, p3) ==
  IF p3 > p2 /\ TitleOf(line, AfterMark(line, SkipClass(line, p3, WS))) # None
  THEN [matched |-> TRUE, num |-> Between(line, p2, p3),
        title |-> TitleOf(line, AfterMark(line, SkipClass(line, p3, WS)))]
  ELSE NoMatch

\* "(?P<num>(?i:[ivxlcdm]+)|\d+)" at offset p2: the offset after it
ChapterNumEnd(line, p2) ==
  IF p2 < Len(line) /\ line[p2 + 1] \in ROMAN THEN SkipClass(line, p2, ROMAN)
  ELSE SkipClass(line, p2, DIGITS)

ChapterFrom(line, p0, p2) ==
  IF KeywordAt(line, p0, {"C", "c"})
  THEN ChapterGroups(line, p2, ChapterNumEnd(line, p2))
  ELSE NoMatch

\* CHAPTER_RE.match(line): the groups num and title
ChapterMatch(line) ==
  ChapterFrom(line, SkipClass(line, 0, WS),
              SkipClass(line, SkipClass(line, 0, WS) + 1, WS))

\* ARTICLE_RE from the number at p2 on, which ends at p3
ArticleGroups(line, p2, p3) ==
  IF /\ p3 > p2
     /\ p3 < Len(line)
     /\ line[p3 + 1] = "."
     /\ TitleOf(line, p3 + 1) # None
  THEN [matched |-> TRUE, num |-> Between(line, p2, p3), title |-> TitleOf(line, p3 + 1)]
  ELSE NoMatch

ArticleFrom(line, p0, p2) ==
  IF KeywordAt(line, p0, {"D", "d"})
  THEN ArticleGroups(line, p2, SkipClass(line, p2, DIGITS))
  ELSE NoMatch

\* ARTICLE_RE.match(line): the groups num and title
ArticleMatch(line) ==
  ArticleFrom(line, SkipClass(line, 0, WS),
              SkipClass(line, SkipClass(line, 0, WS) + 1, WS))

ChapterTuple(line, m) ==
  IF ~m.matched THEN NoMatch
  ELSE [matched |-> TRUE, line |-> line, num |-> Strip(m.num),
        inline_title |-> Strip(m.title)]

\* parse_chapter_inline: None or (line, num, inline_title)
parse_chapter_inline(line) == ChapterTuple(line, ChapterMatch(line))

\* article_full
ArticleFull(num, title) ==
  <<"D", " ">> \o num \o <<".">> \o (IF title # <<>> THEN <<" ">> \o title ELSE <<>>)

ArticleTuple(m) ==
  IF ~m.matched THEN NoMatch
  ELSE [matched |-> TRUE, article_full |-> ArticleFull(Strip(m.num), Strip(m.title)),
        num |-> Strip(m.num), title |-> Strip(m.title)]

\* is_article_header: None or (article_full, num, title)
is_article_header(line) == ArticleTuple(ArticleMatch(line))

SENTINEL == <<".", "/", ".">>

\* "\s*$" from offset p
OnlySpaceFrom(line, p) ==
  \/ SkipClass(line, p, WS) = Len(line)
  \/ SkipClass(line, p, WS) = Len(line) - 1 /\ line[Len(line)] = "\n"

SentinelAt(line, p0) == OccursAt(line, SENTINEL, p0) /\ OnlySpaceFrom(line, p0 + 3)

\* END_APPENDIX_LINE_RE.match(line)
EndAppendixLine(line) == SentinelAt(line, SkipClass(line, 0, WS))

\* END_APPENDIX_ANY_RE.search(line).start(), or -1
EndAppendixAny(line) == FirstOf({k \in 0..Len(line) : OccursAt(line, SENTINEL, k)})

\* ---------------------------------------------------------- quote helpers
\* variant: a close marker closes the earliest open marker still unmatched
RECURSIVE CurlySpans_Queue(_, _, _, _)
CurlySpans_Queue(text, k, stack, spans) ==
  IF k >= Len(text)
  THEN spans \o [j \in 1..Len(stack) |-> [s |-> stack[j], e |-> -1, kind |-> "curly"]]
  ELSE IF text[k + 1] = "q"
       THEN CurlySpans_Queue(text, k + 1, Append(stack, k), spans)
       ELSE IF text[k + 1] = "Q" /\ stack # <<>>
            THEN CurlySpans_Queue(text, k + 1, Tail(stack),
                                  Append(spans, [s |-> Head(stack), e |-> k + 1,
                                                 kind |-> "curly"]))
            ELSE CurlySpans_Queue(text, k + 1, stack, spans)

\* curly pass of compute_quote_spans from offset k on: stack holds the open
\* offsets, most recent last; an open-ended span has e = -1
RECURSIVE CurlySpans(_, _, _, _)
CurlySpans(text, k, stack, spans) ==
  IF k >= Len(text)
  THEN spans \o [j \in 1..Len(stack) |-> [s |-> stack[j], e |-> -1, kind |-> "curly"]]
  ELSE IF text[k + 1] = "q"
       THEN CurlySpans(text, k + 1, Append(stack, k), spans)
       ELSE IF text[k + 1] = "Q" /\ stack # <<>>
            THEN CurlySpans(text, k + 1, SubSeq(stack, 1, Len(stack) - 1),
                            Append(spans, [s |-> stack[Len(stack)], e |-> k + 1,
                                           kind |-> "curly"]))
            ELSE CurlySpans(text, k + 1, stack, spans)

\* offsets of the straight quotes, in order
RECURSIVE DblPositions(_, _)
DblPositions(text, k) ==
  IF k >= Len(text) THEN <<>>
  ELSE (IF text[k + 1] = "\"" THEN <<k>> ELSE <<>>) \o DblPositions(text, k + 1)

\* straight pass: consecutive pairs, a trailing odd one is open-ended
DblPairs(d) ==
  [j \in 1..((Len(d) + 1) \div 2) |->
     [s |-> d[2 * j - 1],
      e |-> IF 2 * j <= Len(d) THEN d[2 * j] + 1 ELSE -1,
      kind |-> "dbl"]]

DblSpans(text) == DblPairs(DblPositions(text, 0))

\* spans.sort(key=start): insert one span keeping the order stable
RECURSIVE InsertSpan(_, _)
InsertSpan(sorted, sp) ==
  IF sorted = <<>> THEN <<sp>>
  ELSE IF sorted[Len(sorted)].s <= sp.s THEN Append(sorted, sp)
       ELSE Append(InsertSpan(SubSeq(sorted, 1, Len(sorted) - 1), sp),
                   sorted[Len(sorted)])

RECURSIVE SortSpans(_, _)
SortSpans(spans, acc) ==
  IF spans = <<>> THEN acc
  ELSE SortSpans(Tail(spans), InsertSpan(acc, Head(spans)))

compute_quote_spans(text) ==
  SortSpans(CurlySpans(text, 0, <<>>, <<>>) \o DblSpans(text), <<>>)

is_offset_in_any_span(offset, spans) ==
  \E j \in 1..Len(spans) :
     IF spans[j].e = -1 THEN offset >= spans[j].s
     ELSE spans[j].s <= offset /\ offset < spans[j].e

\* offset of the next line break at or after p, or the end of the text
LineEnd(text, p) == IF Find(text, "\n", p) = -1 THEN Len(text) ELSE Find(text, "\n", p)

\* "(?i:(Điều|khoản|\d+\.))" at offset p1: the offset after it, or -1
QuotedKeyEnd(text, p1, pd) ==
  IF p1 < Len(text) /\ text[p1 + 1] \in {"D", "d", "K", "k"} THEN p1 + 1
  ELSE IF pd > p1 /\ pd < Len(text) /\ text[pd + 1] = "." THEN pd + 1
  ELSE -1

\* "\s+.*" at offset p2: the end of the match, or -1
QuotedRestEnd(text, p2) ==
  IF p2 # -1 /\ SkipClass(text, p2, WS) > p2
  THEN LineEnd(text, SkipClass(text, p2, WS))
  ELSE -1

QuotedFrom(text, p1) ==
  QuotedRestEnd(text, QuotedKeyEnd(text, p1, SkipClass(text, p1, DIGITS)))

\* QUOTED_TITLE_RE matched at offset k: the end of the match, or -1
QuotedTitleEnd(text, k) ==
  IF k < Len(text) /\ text[k + 1] \in {"q", "\""}
  THEN QuotedFrom(text, SkipClass(text, k + 1, WS))
  ELSE -1

\* the whole line around the match that starts at mstart
QuotedLine(text, mstart) ==
  Strip(Slice(text, RFind(text, "\n", 0, mstart) + 1,
              LineEnd(text, QuotedTitleEnd(text, mstart))))

QuotedFirst(text, hits) ==
  IF hits = {} THEN None ELSE QuotedLine(text, SetMin(hits))

first_quoted_title_line(text) ==
  QuotedFirst(text, {k \in 0..(Len(text) - 1) : QuotedTitleEnd(text, k) # -1})

\* "\d+\.\s" from offset p0, the digits ending at p1: the end, or -1
ClauseMarkEnd(text, p0, p1) ==
  IF /\ p1 > p0
     /\ p1 + 1 < Len(text)
     /\ text[p1 + 1] = "."
     /\ text[p1 + 2] \in WS
  THEN p1 + 2
  ELSE -1

ClauseFrom(text, p0) == ClauseMarkEnd(text, p0, SkipClass(text, p0, DIGITS))

\* re.match(r"^\s*\d+\.\s", text[p:]): the end of the match, or -1
ClauseHeadEnd(text, p) == ClauseFrom(text, SkipClass(text, p, WS))

KhoanTitleOf(first_line) ==
  IF ClauseHeadEnd(first_line, 0) # -1 THEN Strip(first_line) ELSE None

\* the text up to the first line break
FirstLine(text) ==
  IF Find(text, "\n", 0) = -1 THEN text ELSE Slice(text, 0, Find(text, "\n", 0))

leading_khoan_title(segment) == KhoanTitleOf(FirstLine(segment))

\* [m.start() for m in KHOAN_HEAD_RE.finditer(text)], scanning from pos:
\* "^" (multiline) holds at 0 and after a line break, matches do not overlap
RECURSIVE KhoanStarts(_, _)
KhoanStarts(text, pos) ==
  IF pos > Len(text) THEN <<>>
  ELSE IF (pos = 0 \/ text[pos] = "\n") /\ ClauseHeadEnd(text, pos) # -1
       THEN <<pos>> \o KhoanStarts(text, ClauseHeadEnd(text, pos))
       ELSE KhoanStarts(text, pos + 1)

\* ------------------------------------------------------ splitting helpers
\* "split": after the right-most period, else after the right-most line
\* break, else at end
\* variant: a line break is preferred to a period
SplitPoint_BreakFirst(pos, end, period, nl) ==
  IF nl # -1 /\ nl > pos THEN nl + 1
  ELSE IF period # -1 /\ period > pos THEN period + 1 ELSE end

SplitPoint(pos, end, period, nl) ==
  IF period # -1 /\ period > pos THEN period + 1
  ELSE IF nl # -1 /\ nl > pos THEN nl + 1 ELSE end

\* variant: the character just ahead of the cut is left out of the part
SentenceCut_Short(text, pos, split) ==
  [part |-> RStrip(Slice(text, pos, split - 1)), last |-> FALSE, next |-> split]

\* one iteration that does not break: the part appended and the next offset
SentenceCut(text, pos, split) ==
  [part |-> RStrip(Slice(text, pos, split)), last |-> FALSE, next |-> split]

SentenceAt(text, pos, end) ==
  IF end = Len(text)
  THEN [part |-> RStrip(Slice(text, pos, Len(text))), last |-> TRUE, next |-> pos]
  ELSE SentenceCut(text, pos, SplitPoint(pos, end, RFind(text, ".", pos, end),
                                         RFind(text, "\n", pos, end)))

\* one iteration of the while loop of split_long_text_at_sentence at offset
\* pos: the part appended, whether the loop breaks, and the next offset
SentenceStep(text, limit, pos) == SentenceAt(text, pos, MinOf(pos + limit, Len(text)))

\* the loop of split_long_text_at_sentence run from offset pos; each part is
\* kept with the offset at which it was cut
RECURSIVE SplitLongFrom(_, _, _)
SplitLongRest(text, limit, pos, st) ==
  <<[text |-> st.part, start |-> pos]>> \o
  (IF st.last THEN <<>> ELSE SplitLongFrom(text, limit, st.next))

SplitLongFrom(text, limit, pos) ==
  IF pos >= Len(text) THEN <<>>
  ELSE SplitLongRest(text, limit, pos, SentenceStep(text, limit, pos))

PartTexts(ps) == [k \in 1..Len(ps) |-> ps[k].text]
PartStarts(ps) == [k \in 1..Len(ps) |-> ps[k].start]

\* split_long_text_at_sentence(text, limit), for the calls that return
split_long_text_at_sentence(text, limit) == PartTexts(SplitLongFrom(text, limit, 0))

\* the loop never leaves when it is entered with limit <= 0
SentenceLoopStuck(text, limit) == text # <<>> /\ limit <= 0

\* ------------------------------------------------- split_article_content
ChapterOr(chapter) == IF chapter = None THEN <<>> ELSE chapter

\* content_full
ContentFull(header_line, body_text) ==
  header_line \o (IF body_text # <<>> THEN <<"\n">> \o body_text ELSE <<>>)

\* variant: "<" where the code has "<="
UnsplitFits_Strict(header_line, body_text) ==
  Len(ContentFull(header_line, body_text)) < MAX_CONTENT_LEN

\* the test that returns the article as one chunk
UnsplitFits(header_line, body_text) ==
  Len(ContentFull(header_line, body_text)) <= MAX_CONTENT_LEN

BlocksOf(body_text, starts) ==
  IF starts = <<>> THEN << <<0, Len(body_text)>> >>
  ELSE (IF starts[1] > 0 THEN << <<0, starts[1]>> >> ELSE <<>>) \o
       [k \in 1..Len(starts) |->
          <<starts[k], IF k < Len(starts) THEN starts[k + 1] ELSE Len(body_text)>>]

\* the (s, e) blocks of the clause partition
Blocks(body_text) == BlocksOf(body_text, KhoanStarts(body_text, 0))

\* the state of the block loop: out_chunks, buf, and whether the sentence
\* loop was entered and never left (stuck, on the text stuck_text); pos and
\* buf_pos record the body offset each chunk and the buffer start at
NewRun == [out |-> <<>>, pos |-> <<>>, buf |-> <<>>, buf_pos |-> 0,
           stuck |-> FALSE, stuck_text |-> <<>>]

Chunk(content, chapter, header_line) ==
  [content |-> content, chapter |-> ChapterOr(chapter), article |-> header_line]

\* variant: the buffer becomes a chunk without the header line ahead of it
flush_buf_Bare(run, header_line, chapter) ==
  IF Strip(run.buf) = <<>> THEN run
  ELSE [run EXCEPT !.out = Append(@, Chunk(Strip(run.buf), chapter, header_line)),
                   !.pos = Append(@, run.buf_pos),
                   !.buf = <<>>]

flush_buf(run, header_line, chapter) ==
  IF Strip(run.buf) = <<>> THEN run
  ELSE [run EXCEPT !.out = Append(@, Chunk(header_line \o <<"\n">> \o Strip(run.buf),
                                           chapter, header_line)),
                   !.pos = Append(@, run.buf_pos),
                   !.buf = <<>>]

\* variant: the line break after the header is not counted
SentenceLimit_Loose(header_line) == MAX_CONTENT_LEN - Len(header_line)

\* the limit handed to split_long_text_at_sentence
SentenceLimit(header_line) == MAX_CONTENT_LEN - Len(header_line) - 1

\* does a segment go to the coalescing buffer instead of being sentence-split
SegmentFits(header_line, segment) ==
  Len(header_line) + 1 + Len(segment) <= MAX_CONTENT_LEN

\* offsets[idx]: the lengths of the parts before idx, summed
RECURSIVE PartOffset(_, _)
PartOffset(parts, idx) ==
  IF idx <= 1 THEN 0 ELSE PartOffset(parts, idx - 1) + Len(parts[idx - 1])

\* variant: the clause title is put before the first part too
PrefixLines_AllParts(header_line, idx, part, khoan_title, quoted_title, in_quote_here) ==
  <<header_line>> \o
  (IF khoan_title # None THEN <<khoan_title>> ELSE <<>>) \o
  (IF in_quote_here /\ quoted_title # None /\ quoted_title # <<>>
      /\ Strip(quoted_title) # Strip(FirstLine(part))
   THEN <<quoted_title>> ELSE <<>>)

\* the context lines put before a part (idx is 1-based here, idx > 0 there)
PrefixLines(header_line, idx, part, khoan_title, quoted_title, in_quote_here) ==
  <<header_line>> \o
  (IF idx > 1 /\ khoan_title # None THEN <<khoan_title>> ELSE <<>>) \o
  (IF in_quote_here /\ quoted_title # None /\ quoted_title # <<>>
      /\ Strip(quoted_title) # Strip(FirstLine(part))
   THEN <<quoted_title>> ELSE <<>>)

\* sub_content of part idx
SubContent(header_line, parts, idx, khoan_title, quoted_title, spans) ==
  JoinNL(PrefixLines(header_line, idx, parts[idx], khoan_title, quoted_title,
                     is_offset_in_any_span(PartOffset(parts, idx), spans)))
  \o <<"\n">> \o Strip(parts[idx])

SubChunks(header_line, chapter, parts, khoan_title, quoted_title, spans) ==
  [idx \in 1..Len(parts) |->
     Chunk(SubContent(header_line, parts, idx, khoan_title, quoted_title, spans),
           chapter, header_line)]

\* the chunks of one sentence-split segment, parts being its parts
PartChunks(header_line, segment, chapter, parts) ==
  SubChunks(header_line, chapter, parts, leading_khoan_title(segment),
            first_quoted_title_line(segment), compute_quote_spans(segment))

\* variant: a segment that fits never joins the buffer
Coalesce_NoJoin(run, header_line, chapter, segment, seg_pos, candidate) ==
  [flush_buf(run, header_line, chapter) EXCEPT !.buf = segment,
                                               !.buf_pos = seg_pos]

\* a segment that fits: "candidate" joins the buffer or starts a new one
Coalesce(run, header_line, chapter, segment, seg_pos, candidate) ==
  IF Len(header_line) + 1 + Len(candidate) <= MAX_CONTENT_LEN
  THEN [run EXCEPT !.buf = candidate,
                   !.buf_pos = IF run.buf = <<>> THEN seg_pos ELSE @]
  ELSE [flush_buf(run, header_line, chapter) EXCEPT !.buf = segment,
                                                     !.buf_pos = seg_pos]

\* a segment that does not fit, after flush_buf(): its parts become chunks,
\* or the sentence loop is entered and never left
SentenceSplit(flushed, header_line, chapter, segment, seg_pos, ps) ==
  IF SentenceLoopStuck(segment, SentenceLimit(header_line))
  THEN [flushed EXCEPT !.stuck = TRUE, !.stuck_text = segment]
  ELSE [flushed EXCEPT
          !.out = @ \o PartChunks(header_line, segment, chapter, PartTexts(ps)),
          !.pos = @ \o [k \in 1..Len(ps) |-> seg_pos + ps[k].start]]

SegmentStep(run, header_line, chapter, segment, seg_pos) ==
  IF SegmentFits(header_line, segment)
  THEN Coalesce(run, header_line, chapter, segment, seg_pos,
                run.buf \o (IF run.buf # <<>> THEN <<"\n">> ELSE <<>>) \o segment)
  ELSE SentenceSplit(flush_buf(run, header_line, chapter), header_line, chapter,
                     segment, seg_pos,
                     IF SentenceLoopStuck(segment, SentenceLimit(header_line))
                     THEN <<>>
                     ELSE SplitLongFrom(segment, SentenceLimit(header_line), 0))

RawStep(run, header_line, chapter, s, raw) ==
  SegmentStep(run, header_line, chapter, StripNL(raw), s + SkipClass(raw, 0, {"\n"}))

\* one pass of the body of "for (s, e) in blocks"
BlockStep(run, header_line, body_text, chapter, blk) ==
  RawStep(run, header_line, chapter, blk[1], Slice(body_text, blk[1], blk[2]))

RECURSIVE BlockLoop(_, _, _, _, _)
BlockLoop(run, header_line, body_text, chapter, blocks) ==
  IF blocks = <<>> \/ run.stuck THEN run
  ELSE BlockLoop(BlockStep(run, header_line, body_text, chapter, Head(blocks)),
                 header_line, body_text, chapter, Tail(blocks))

\* "if buf: flush_buf()" after the loop
FinalFlush(run, header_line, chapter) ==
  IF run.stuck \/ run.buf = <<>> THEN run ELSE flush_buf(run, header_line, chapter)

\* split_article_content(header_line, body_text, chapter), as a run
SplitRun(header_line, body_text, chapter) ==
  IF UnsplitFits(header_line, body_text)
  THEN [NewRun EXCEPT !.out = <<Chunk(ContentFull(header_line, body_text),
                                      chapter, header_line)>>,
                      !.pos = <<0>>]
  ELSE FinalFlush(BlockLoop(NewRun, header_line, body_text, chapter, Blocks(body_text)),
                  header_line, chapter)

split_article_content(header_line, body_text, chapter) ==
  SplitRun(header_line, body_text, chapter).out

\* ------------------------------------------------------------ chapter name
\* variant: the next line becomes the title whatever it is
build_chapter_name_AnyNext(line, num, inline_title, next_line) ==
  IF inline_title # <<>>
  THEN <<"C", " ">> \o num \o <<".", " ">> \o inline_title
  ELSE IF next_line # None /\ next_line # <<>>
       THEN <<"C", " ">> \o num \o <<".", " ">> \o next_line
       ELSE <<"C", " ">> \o num

build_chapter_name(line, num, inline_title, next_line) ==
  IF inline_title # <<>>
  THEN <<"C", " ">> \o num \o <<".", " ">> \o inline_title
  ELSE IF /\ next_line # None /\ next_line # <<>>
          /\ ~ChapterMatch(next_line).matched
          /\ ~ArticleMatch(next_line).matched
       THEN <<"C", " ">> \o num \o <<".", " ">> \o next_line
       ELSE <<"C", " ">> \o num

\* ------------------------------------------------------------------ input
Fill(n) == [k \in 1..n |-> "a"]

\* an Article header line whose canonical header has n characters (n >= 6);
\* the line itself is written in lower case and without the space
HeaderOfLen(n) == <<"d", " ", "1", ".">> \o Fill(n - 5)

\* the lines read_docx_lines can hand over: stripped and not empty
Pool ==
  { <<"C", " ", "x">>,
    <<"c", " ", "1", ":", " ", "a">>,
    <<"d", " ", " ", "1", ".">>,
    HeaderOfLen(MAX_CONTENT_LEN + 1),
    <<"a">>,
    <<"1", ".", " ", "a">>,
    <<"1", ".", " ", "a", ".", "a", "a">>,
    <<".", "/", ".">>,
    <<"a", ".", "/", ".", "a">> }

RECURSIVE SeqsUpTo(_, _)
SeqsUpTo(S, n) ==
  IF n = 0 THEN {<<>>}
  ELSE SeqsUpTo(S, n - 1) \cup
       {Append(q, x) : q \in {r \in SeqsUpTo(S, n - 1) : Len(r) = n - 1}, x \in S}

\* ------------------------------------------------------------------ state
Init ==
  /\ lines \in SeqsUpTo(Pool, MaxLines)
  /\ i = 0
  /\ current_chapter = None
  /\ current_article_full = None
  /\ current_body = <<>>
  /\ chunks = <<>>
  /\ end_reached = FALSE
  /\ pc = "main"
  /\ sl_text = <<>>
  /\ sl_limit = 0
  /\ sl_i = 0
  /\ sl_parts = <<>>
  /\ art_idx = -1
  /\ flushes = <<>>
  /\ offs = <<>>

sl_vars == <<sl_text, sl_limit, sl_i, sl_parts>>

\* --------------------------------------------------------------------- main
\* main: "if not lines: raise SystemExit"
MainNoLines ==
  /\ pc = "main"
  /\ lines = <<>>
  /\ pc' = "aborted"
  /\ UNCHANGED <<lines, i, current_chapter, current_article_full, current_body,
                 chunks, end_reached, sl_vars, art_idx, flushes, offs>>

\* main: chunks = chunk_by_articles(lines)
MainChunk ==
  /\ pc = "main"
  /\ lines # <<>>
  /\ pc' = "scan"
  /\ UNCHANGED <<lines, i, current_chapter, current_article_full, current_body,
                 chunks, end_reached, sl_vars, art_idx, flushes, offs>>

\* main: "if not chunks: raise SystemExit"
MainAbort ==
  /\ pc = "returned"
  /\ chunks = <<>>
  /\ pc' = "aborted"
  /\ UNCHANGED <<lines, i, current_chapter, current_article_full, current_body,
                 chunks, end_reached, sl_vars, art_idx, flushes, offs>>

\* main: write_csv(chunks, user_meta, out_path)
MainWrite ==
  /\ pc = "returned"
  /\ chunks # <<>>
  /\ pc' = "written"
  /\ UNCHANGED <<lines, i, current_chapter, current_article_full, current_body,
                 chunks, end_reached, sl_vars, art_idx, flushes, offs>>

\* -------------------------------------------------------- chunk_by_articles
Scanning == pc = "scan" /\ i < Len(lines) /\ ~end_reached
CurLine == lines[i + 1]

\* body_text of flush_article for the body lines bl
BodyText(bl) == Strip(JoinNL(bl))

\* the splitter's run when flush_article() is called with the body lines bl
FlushRun(bl) ==
  SplitRun(current_article_full, BodyText(bl), ChapterOr(current_chapter))

\* flush_article() returns: nothing is open, or the splitter comes back
FlushReturns(run) == current_article_full = None \/ ~run.stuck

\* variant: the chunks of a flush go ahead of the earlier ones
flush_article_Prepend(bl, run, why) ==
  IF current_article_full = None
  THEN UNCHANGED <<chunks, flushes, offs>>
  ELSE /\ chunks' = run.out \o chunks
       /\ offs' = run.pos \o offs
       /\ flushes' = Append(flushes, [art |-> art_idx,
                                      header |-> current_article_full,
                                      body |-> Strip(JoinNL(bl)),
                                      chapter |-> ChapterOr(current_chapter),
                                      n |-> Len(run.out),
                                      at |-> i,
                                      why |-> why])

\* flush_article() on the body lines bl, run being the splitter's run;
\* flushes and offs keep, for every flush and chunk, where it came from
\* (why: the branch of the loop that called it)
flush_article(bl, run, why) ==
  IF current_article_full = None
  THEN UNCHANGED <<chunks, flushes, offs>>
  ELSE /\ chunks' = chunks \o run.out
       /\ offs' = offs \o run.pos
       /\ flushes' = Append(flushes, [art |-> art_idx,
                                      header |-> current_article_full,
                                      body |-> BodyText(bl),
                                      chapter |-> ChapterOr(current_chapter),
                                      n |-> Len(run.out),
                                      at |-> i,
                                      why |-> why])

\* flush_article() whose call of split_long_text_at_sentence does not return
EnterSentenceLoop(run) ==
  /\ pc' = "in_split"
  /\ sl_text' = run.stuck_text
  /\ sl_limit' = SentenceLimit(current_article_full)
  /\ sl_i' = 0
  /\ sl_parts' = <<>>
  /\ UNCHANGED <<lines, i, current_chapter, current_article_full, chunks,
                 end_reached, art_idx, flushes, offs>>

\* lines[i + 1] if (i + 1) < n else None
NextLine == IF i + 1 < Len(lines) THEN lines[i + 2] ELSE None

\* variant: the Chapter header sets the chapter name before it flushes
Renamed(out, name) == [c \in 1..Len(out) |-> [out[c] EXCEPT !.chapter = name]]

ChapterBranch_NameFirst(chap, run) ==
  IF FlushReturns(run)
  THEN /\ IF current_article_full = None
          THEN UNCHANGED <<chunks, flushes, offs>>
          ELSE /\ chunks' = chunks \o
                    Renamed(run.out,
                            build_chapter_name(chap.line, chap.num,
                                               chap.inline_title, NextLine))
               /\ offs' = offs \o run.pos
               /\ flushes' = Append(flushes, [art |-> art_idx,
                                              header |-> current_article_full,
                                              body |-> BodyText(current_body),
                                              chapter |-> ChapterOr(current_chapter),
                                              n |-> Len(run.out),
                                              at |-> i,
                                              why |-> "chapter"])
       /\ current_article_full' = None
       /\ art_idx' = -1
       /\ current_body' = <<>>
       /\ current_chapter' =
            build_chapter_name(chap.line, chap.num, chap.inline_title, NextLine)
       /\ i' = i + 1
       /\ UNCHANGED <<lines, end_reached, pc, sl_vars>>
  ELSE EnterSentenceLoop(run) /\ UNCHANGED current_body

\* variant: the Chapter header flushes the article and leaves it open
ChapterBranch_KeepOpen(chap, run) ==
  IF FlushReturns(run)
  THEN /\ flush_article(current_body, run, "chapter")
       /\ current_chapter' =
            build_chapter_name(chap.line, chap.num, chap.inline_title, NextLine)
       /\ i' = i + 1
       /\ UNCHANGED <<lines, current_article_full, art_idx, current_body,
                      end_reached, pc, sl_vars>>
  ELSE EnterSentenceLoop(run) /\ UNCHANGED current_body

ChapterBranch(chap, run) ==
  IF FlushReturns(run)
  THEN /\ flush_article(current_body, run, "chapter")
       /\ current_article_full' = None
       /\ art_idx' = -1
       /\ current_body' = <<>>
       /\ current_chapter' =
            build_chapter_name(chap.line, chap.num, chap.inline_title, NextLine)
       /\ i' = i + 1
       /\ UNCHANGED <<lines, end_reached, pc, sl_vars>>
  ELSE EnterSentenceLoop(run) /\ UNCHANGED current_body

\* a Chapter header line
ChapterLine ==
  /\ Scanning
  /\ parse_chapter_inline(CurLine).matched
  /\ ChapterBranch(parse_chapter_inline(CurLine), FlushRun(current_body))

ArticleBranch(art, run) ==
  IF FlushReturns(run)
  THEN /\ flush_article(current_body, run, "article")
       /\ current_body' = <<>>
       /\ current_article_full' = art.article_full
       /\ art_idx' = i
       /\ i' = i + 1
       /\ UNCHANGED <<lines, current_chapter, end_reached, pc, sl_vars>>
  ELSE EnterSentenceLoop(run) /\ UNCHANGED current_body

\* an Article header line
ArticleLine ==
  /\ Scanning
  /\ ~parse_chapter_inline(CurLine).matched
  /\ is_article_header(CurLine).matched
  /\ ArticleBranch(is_article_header(CurLine), FlushRun(current_body))

NotHeader(line) == ~ChapterMatch(line).matched /\ ~ArticleMatch(line).matched

\* variant: the article is flushed at the end marker and the loop goes on
FlushAndContinue(bl, run) ==
  IF FlushReturns(run)
  THEN /\ flush_article(bl, run, "end_marker")
       /\ i' = i + 1
       /\ UNCHANGED <<lines, current_chapter, current_article_full,
                      end_reached, pc, sl_vars, art_idx>>
  ELSE EnterSentenceLoop(run)

\* flush_article(); end_reached = True; break
FlushAndHalt(bl, run) ==
  IF FlushReturns(run)
  THEN /\ flush_article(bl, run, "end_marker")
       /\ end_reached' = TRUE
       /\ pc' = "returned"
       /\ UNCHANGED <<lines, i, current_chapter, current_article_full,
                      sl_vars, art_idx>>
  ELSE EnterSentenceLoop(run)

\* a line that is the end marker alone, inside an article
SentinelLine ==
  /\ Scanning
  /\ NotHeader(CurLine)
  /\ current_article_full # None
  /\ EndAppendixLine(CurLine)
  /\ UNCHANGED current_body
  /\ FlushAndHalt(current_body, FlushRun(current_body))

\* current_body once "before", the text ahead of the marker, is kept or not
WithBefore(body, before) ==
  IF Strip(before) # <<>> THEN Append(body, RStrip(before)) ELSE body

BodyWithBefore_WholeLine(line) == Append(current_body, line)

BodyWithBefore(line) == WithBefore(current_body, Slice(line, 0, EndAppendixAny(line)))

InlineBranch(bl) ==
  /\ current_body' = bl
  /\ FlushAndHalt(bl, FlushRun(bl))

\* a line that holds the end marker among other text, inside an article
InlineSentinel ==
  /\ Scanning
  /\ NotHeader(CurLine)
  /\ current_article_full # None
  /\ ~EndAppendixLine(CurLine)
  /\ EndAppendixAny(CurLine) # -1
  /\ InlineBranch(BodyWithBefore(CurLine))

\* any other line inside an article
BodyLine ==
  /\ Scanning
  /\ NotHeader(CurLine)
  /\ current_article_full # None
  /\ ~EndAppendixLine(CurLine)
  /\ EndAppendixAny(CurLine) = -1
  /\ current_body' = Append(current_body, CurLine)
  /\ i' = i + 1
  /\ UNCHANGED <<lines, current_chapter, current_article_full, chunks,
                 end_reached, pc, sl_vars, art_idx, flushes, offs>>

\* variant: an end marker met while no article is open halts the scan
IdleLine_Halt ==
  /\ Scanning
  /\ NotHeader(CurLine)
  /\ current_article_full = None
  /\ IF EndAppendixAny(CurLine) # -1
     THEN /\ end_reached' = TRUE
          /\ pc' = "returned"
          /\ UNCHANGED i
     ELSE /\ i' = i + 1
          /\ UNCHANGED <<end_reached, pc>>
  /\ UNCHANGED <<lines, current_chapter, current_article_full, current_body,
                 chunks, sl_vars, art_idx, flushes, offs>>

\* variant: a line met while no article is open is kept as body
IdleLine_Keep ==
  /\ Scanning
  /\ NotHeader(CurLine)
  /\ current_article_full = None
  /\ current_body' = Append(current_body, CurLine)
  /\ i' = i + 1
  /\ UNCHANGED <<lines, current_chapter, current_article_full,
                 chunks, end_reached, pc, sl_vars, art_idx, flushes, offs>>

\* a line that is no header while no article is open
IdleLine ==
  /\ Scanning
  /\ NotHeader(CurLine)
  /\ current_article_full = None
  /\ i' = i + 1
  /\ UNCHANGED <<lines, current_chapter, current_article_full, current_body,
                 chunks, end_reached, pc, sl_vars, art_idx, flushes, offs>>

FinalBranch(run) ==
  IF FlushReturns(run)
  THEN /\ flush_article(current_body, run, "end_of_input")
       /\ pc' = "returned"
       /\ UNCHANGED <<lines, i, current_chapter, current_article_full,
                      current_body, end_reached, sl_vars, art_idx>>
  ELSE EnterSentenceLoop(run) /\ UNCHANGED current_body

\* the loop ends at i = n: "if not end_reached: flush_article()", return
EndOfInput ==
  /\ pc = "scan"
  /\ i >= Len(lines)
  /\ ~end_reached
  /\ FinalBranch(FlushRun(current_body))

\* ----------------------------------------- split_long_text_at_sentence loop
\* one iteration of "while i < n"
IterBranch(st) ==
  /\ sl_parts' = Append(sl_parts, st.part)
  /\ sl_i' = st.next
  /\ pc' = IF st.last THEN "split_done" ELSE "in_split"

SentenceIter ==
  /\ pc = "in_split"
  /\ sl_i < Len(sl_text)
  /\ Len(sl_parts) < MaxIter
  /\ IterBranch(SentenceStep(sl_text, sl_limit, sl_i))
  /\ UNCHANGED <<lines, i, current_chapter, current_article_full, current_body,
                 chunks, end_reached, sl_text, sl_limit, art_idx, flushes, offs>>

\* "while i < n" is false: return chunks
SentenceReturn ==
  /\ pc = "in_split"
  /\ sl_i >= Len(sl_text)
  /\ pc' = "split_done"
  /\ UNCHANGED <<lines, i, current_chapter, current_article_full, current_body,
                 chunks, end_reached, sl_vars, art_idx, flushes, offs>>

\* ------------------------------------------ split_article_content, all bodies
BodyAlphabet == {"a", ".", "1", " ", "\n", "q"}

TextsUpTo(alphabet, n) == UNION {[1..k -> alphabet] : k \in 0..n}

\* a body_text that flush_article can build: stripped lines joined by line
\* breaks, stripped
ValidBody(b) ==
  /\ b = Strip(b)
  /\ \A k \in 1..(Len(b) - 1) :
        /\ b[k] = "\n" => b[k + 1] \notin WS
        /\ b[k + 1] = "\n" => b[k] \notin WS

Bodies(n) == {b \in TextsUpTo(BodyAlphabet, n) : ValidBody(b)}

\* text.split("\n")
RECURSIVE LinesOf(_)
LinesOf(text) ==
  IF text = <<>> THEN <<>>
  ELSE IF Find(text, "\n", 0) = -1 THEN <<text>>
  ELSE <<Slice(text, 0, Find(text, "\n", 0))>> \o
       LinesOf(Slice(text, Find(text, "\n", 0) + 1, Len(text)))

\* headers that leave a sentence limit of 3 and of 2, and headers of T - 1,
\* T and T + 1 characters
SplitInputs ==
  ({HeaderOfLen(MAX_CONTENT_LEN - 4), HeaderOfLen(MAX_CONTENT_LEN - 3)}
     \X Bodies(MaxBodyLen))
  \cup
  ({HeaderOfLen(MAX_CONTENT_LEN - 1), HeaderOfLen(MAX_CONTENT_LEN),
    HeaderOfLen(MAX_CONTENT_LEN + 1)} \X Bodies(1))

\* chunk_by_articles at the end of its input, one article open: an Article
\* header line followed by the lines of a body
InitSplit ==
  \E in \in SplitInputs :
    /\ lines = <<in[1]>> \o LinesOf(in[2])
    /\ i = 1 + Len(LinesOf(in[2]))
    /\ current_chapter = None
    /\ current_article_full = is_article_header(in[1]).article_full
    /\ current_body = LinesOf(in[2])
    /\ chunks = <<>>
    /\ end_reached = FALSE
    /\ pc = "scan"
    /\ sl_text = <<>>
    /\ sl_limit = 0
    /\ sl_i = 0
    /\ sl_parts = <<>>
    /\ art_idx = 0
    /\ flushes = <<>>
    /\ offs = <<>>

NextSplit ==
  \/ EndOfInput
  \/ SentenceIter
  \/ MainAbort
  \/ MainWrite

SpecSplit == InitSplit /\ [][NextSplit]_vars

\* ------------------------------------ split_long_text_at_sentence, all texts
TextAlphabet == {"a", ".", " ", "\n"}
MaxLimit == 3
\* the limits tried, those of headers close to and over the threshold included
Limits == (-MaxLimit)..MaxLimit

InitSentence ==
  /\ lines = <<>>
  /\ i = 0
  /\ current_chapter = None
  /\ current_article_full = None
  /\ current_body = <<>>
  /\ chunks = <<>>
  /\ end_reached = FALSE
  /\ pc = "in_split"
  /\ sl_text \in TextsUpTo(TextAlphabet, MaxTextLen)
  /\ sl_limit \in Limits
  /\ sl_i = 0
  /\ sl_parts = <<>>
  /\ art_idx = -1
  /\ flushes = <<>>
  /\ offs = <<>>

NextSentence ==
  \/ SentenceIter
  \/ SentenceReturn

SpecSentence == InitSentence /\ [][NextSentence]_vars


\* --------------------------------- split_article_content, bodies with quotes
QuoteAlphabet == {"a", "\n", "q", "Q", "\"", "D"}
MaxQuotedLen == 6

\* a header that leaves a sentence limit of 3, and every body of quote marks,
\* title keywords, letters and line breaks
QuotedInputs ==
  {HeaderOfLen(MAX_CONTENT_LEN - 4)} \X
  {b \in TextsUpTo(QuoteAlphabet, MaxQuotedLen) : ValidBody(b)}

InitQuoted ==
  \E in \in QuotedInputs :
    /\ lines = <<in[1]>> \o LinesOf(in[2])
    /\ i = 1 + Len(LinesOf(in[2]))
    /\ current_chapter = None
    /\ current_article_full = is_article_header(in[1]).article_full
    /\ current_body = LinesOf(in[2])
    /\ chunks = <<>>
    /\ end_reached = FALSE
    /\ pc = "scan"
    /\ sl_text = <<>>
    /\ sl_limit = 0
    /\ sl_i = 0
    /\ sl_parts = <<>>
    /\ art_idx = 0
    /\ flushes = <<>>
    /\ offs = <<>>

NextQuoted ==
  \/ EndOfInput
  \/ MainWrite

SpecQuoted == InitQuoted /\ [][NextQuoted]_vars

\* ------------------------------------------------- inline end-marker runs
\* chunk_by_articles over lines that hold the end marker among other text:
\* at the start, in the middle, after a blank, and twice
MarkerPool ==
  { <<"d", " ", " ", "1", ".">>,
    <<"a">>,
    <<".", "/", ".", "a">>,
    <<"a", ".", "/", ".", "1">>,
    <<"a", " ", ".", "/", ".">>,
    <<"1", ".", "/", ".", "a", ".", "/", ".">> }

InitMarker ==
  /\ lines \in SeqsUpTo(MarkerPool, MaxLines)
  /\ i = 0
  /\ current_chapter = None
  /\ current_article_full = None
  /\ current_body = <<>>
  /\ chunks = <<>>
  /\ end_reached = FALSE
  /\ pc = "main"
  /\ sl_text = <<>>
  /\ sl_limit = 0
  /\ sl_i = 0
  /\ sl_parts = <<>>
  /\ art_idx = -1
  /\ flushes = <<>>
  /\ offs = <<>>

NextMarker ==
  \/ MainNoLines
  \/ MainChunk
  \/ ArticleLine
  \/ InlineSentinel
  \/ BodyLine
  \/ IdleLine
  \/ EndOfInput
  \/ MainAbort
  \/ MainWrite

SpecMarker == InitMarker /\ [][NextMarker]_vars

Next ==
  \/ MainNoLines
  \/ MainChunk
  \/ ChapterLine
  \/ ArticleLine
  \/ SentinelLine
  \/ InlineSentinel
  \/ BodyLine
  \/ IdleLine
  \/ EndOfInput
  \/ SentenceIter
  \/ MainAbort
  \/ MainWrite

Spec == Init /\ [][Next]_vars

\* ================================================================ properties
\* flushes[k] is the k-th article handed to split_article_content that came
\* back; its chunks are chunks[FirstChunk(k)..LastChunk(k)]
FlushIds == 1..Len(flushes)

RECURSIVE ChunksBefore(_, _)
ChunksBefore(fl, k) ==
  IF k <= 1 THEN 0 ELSE ChunksBefore(fl, k - 1) + fl[k - 1].n

FirstChunk(k) == ChunksBefore(flushes, k) + 1
LastChunk(k) == ChunksBefore(flushes, k) + flushes[k].n
ChunkIds(k) == FirstChunk(k)..LastChunk(k)

\* len(full), full being the header line, and a line break and the body
\* text after it when the body text is not empty
FullLen(f) == Len(f.header) + (IF f.body = <<>> THEN 0 ELSE 1 + Len(f.body))

\* the lines strictly between the header of flush f and the line it was
\* flushed at
LinesBetween(f) == SubSeq(lines, f.art + 2, f.at)

Halted == pc \in {"returned", "aborted", "written"}

C2_ChunkBound ==
  \A c \in 1..Len(chunks) :
    \/ Len(chunks[c].content) <= MAX_CONTENT_LEN
    \/ Len(chunks[c].article) > MAX_CONTENT_LEN

\* ------------------------------------------------------------------- C3
\* C3: every chunk has a non-empty content whose first line is its own
\* article field, and the article field is the canonical header of the Article
\* line the chunk was cut from.
C3_Traceable ==
  /\ Len(chunks) = ChunksBefore(flushes, Len(flushes) + 1)
  /\ \A k \in FlushIds : \A c \in ChunkIds(k) :
       /\ chunks[c].content # <<>>
       /\ IsPrefix(chunks[c].article, chunks[c].content)
       /\ \/ Len(chunks[c].content) = Len(chunks[c].article)
          \/ chunks[c].content[Len(chunks[c].article) + 1] = "\n"
       /\ ArticleMatch(lines[flushes[k].art + 1]).matched
       /\ chunks[c].article =
            ArticleFull(Strip(ArticleMatch(lines[flushes[k].art + 1]).num),
                        Strip(ArticleMatch(lines[flushes[k].art + 1]).title))

\* an article written otherwise than its canonical header came back in
\* several chunks, its header ahead of each
C3_Witness ==
  \E k \in FlushIds :
    /\ flushes[k].n > 1
    /\ flushes[k].header # lines[flushes[k].art + 1]
    /\ \A c \in ChunkIds(k) : Len(chunks[c].content) > Len(chunks[c].article)

\* ------------------------------------------------------------------- C4
\* the body an article has when the end marker is met on the line it is
\* flushed at: the lines after its header, and the text ahead of an inline
\* marker if there is any
BodyAtMarker(f) ==
  IF EndAppendixLine(lines[f.at + 1])
  THEN LinesBetween(f)
  ELSE WithBefore(LinesBetween(f),
                  Slice(lines[f.at + 1], 0, EndAppendixAny(lines[f.at + 1])))

\* C4: once the end marker is recognized inside an article, that article is
\* flushed with the body gathered so far and the scan has halted for good:
\* the flush is the last one, the position stays on the marker line, and the
\* chunks are those of the flushes up to it, none from a later line.
C4_SentinelHalts ==
  \A k \in FlushIds :
    flushes[k].why = "end_marker" =>
      /\ k = Len(flushes)
      /\ end_reached
      /\ Halted
      /\ i = flushes[k].at
      /\ i < Len(lines)
      /\ EndAppendixAny(lines[i + 1]) # -1
      /\ flushes[k].art = art_idx
      /\ flushes[k].header = current_article_full
      /\ flushes[k].body = Strip(JoinNL(BodyAtMarker(flushes[k])))
      /\ Len(chunks) = LastChunk(k)
      /\ \A c \in ChunkIds(k) :
           /\ chunks[c].article = flushes[k].header
           /\ chunks[c].chapter = flushes[k].chapter

\* the scan halted on an end marker that an Article header follows, and the
\* output was written
C4_Witness ==
  /\ end_reached
  /\ pc = "written"
  /\ \E j \in (i + 2)..Len(lines) : is_article_header(lines[j]).matched
  /\ \E k \in FlushIds : flushes[k].why = "end_marker" /\ flushes[k].n > 0

\* ------------------------------------------------------------------- C5
\* C5: the chunks are those of the flushed articles, one article after the
\* other in the order of their header lines, each article's chunks together
\* and in the order of the body offsets they start at.
C5_OrderPreserved ==
  /\ Len(chunks) = ChunksBefore(flushes, Len(flushes) + 1)
  /\ Len(offs) = Len(chunks)
  /\ \A k \in FlushIds :
       /\ k > 1 => flushes[k - 1].art < flushes[k].art
       /\ SubSeq(chunks, FirstChunk(k), LastChunk(k)) =
            split_article_content(flushes[k].header, flushes[k].body,
                                  flushes[k].chapter)
       /\ \A c \in FirstChunk(k)..(LastChunk(k) - 1) : offs[c] < offs[c + 1]

\* two articles were flushed, the first one in several chunks of which one
\* is a coalescing buffer emitted ahead of sentence-level parts
C5_Witness ==
  /\ Len(flushes) >= 2
  /\ flushes[1].n >= 3
  /\ flushes[2].n >= 1
  /\ chunks[1] # chunks[LastChunk(1) + 1]

\* ------------------------------------------------------------------- C6
\* the 1-based position of the first Chapter or Article header line
FirstHeader ==
  IF \A j \in 1..Len(lines) : NotHeader(lines[j]) THEN Len(lines) + 1
  ELSE SetMin({j \in 1..Len(lines) : ~NotHeader(lines[j])})

\* the chapter names that the Chapter header lines up to position last give
ChapterNamesUpTo(last) ==
  {build_chapter_name(lines[j], parse_chapter_inline(lines[j]).num,
                      parse_chapter_inline(lines[j]).inline_title,
                      IF j < Len(lines) THEN lines[j + 1] ELSE None) :
     j \in {m \in 1..last : parse_chapter_inline(lines[m]).matched}}

BuilderInitial ==
  /\ chunks = <<>>
  /\ flushes = <<>>
  /\ current_chapter = None
  /\ current_article_full = None
  /\ current_body = <<>>
  /\ art_idx = -1
  /\ ~end_reached

\* a header among the lines met so far
HeaderMet == \E j \in 1..i : j <= Len(lines) /\ ~NotHeader(lines[j])

\* the flush f has its header from the Article header line art, its body from
\* the lines after that line, its chapter from a Chapter header line ahead
FromHeader(f, art) ==
  /\ art.matched
  /\ f.header = art.article_full
  /\ f.at >= f.art + 1
  /\ f.why # "end_marker" => f.body = Strip(JoinNL(LinesBetween(f)))
  /\ f.chapter = <<>> \/ f.chapter \in ChapterNamesUpTo(f.art)

\* C6: while only lines ahead of the first header have been met the builder
\* state is the initial one, and every flushed article has its header from
\* an Article header line, its body from the lines after that line and its
\* chapter from a Chapter header line, none of them ahead of the first header.
C6_IdleDiscard ==
  /\ BuilderInitial \/ HeaderMet
  /\ \A k \in FlushIds :
       FromHeader(flushes[k], is_article_header(lines[flushes[k].art + 1]))

\* lines ahead of the first header were met and left behind, and a later
\* article gave chunks
C6_Witness ==
  /\ FirstHeader > 1
  /\ i >= FirstHeader
  /\ chunks # <<>>

\* ------------------------------------------------------------------- C7
\* the chunks of flush k that start inside the block (s, e) of its body
ChunksIn(k, s, e) == {c \in ChunkIds(k) : offs[c] >= s /\ offs[c] < e}

\* seg is the text of the block (s, e), which an empty body does not have
BoundaryAt(k, s, e, seg, limit) ==
  /\ (seg # <<>> /\ Len(seg) = limit) =>
       /\ Cardinality(ChunksIn(k, s, e)) = 1
       /\ \A c \in ChunksIn(k, s, e) :
            chunks[c].content = flushes[k].header \o <<"\n">> \o seg
  /\ (seg # <<>> /\ Len(seg) = limit + 1) =>
       Cardinality(ChunksIn(k, s, e)) >= 2

BoundaryOf(k, body, blk) ==
  BoundaryAt(k, blk[1], blk[2], StripNL(Slice(body, blk[1], blk[2])),
             MAX_CONTENT_LEN - Len(flushes[k].header) - 1)

\* C7: a clause block of exactly T - len(headerLine) - 1 characters is one
\* chunk, the header line and the block; a block one character longer gives
\* at least two chunks.
C7_Boundary ==
  \A k \in FlushIds :
    \A b \in 1..Len(Blocks(flushes[k].body)) :
      BoundaryOf(k, flushes[k].body, Blocks(flushes[k].body)[b])

\* a clause block one character over the limit was cut in two chunks
C7_Witness ==
  \E k \in FlushIds :
    \E b \in 1..Len(Blocks(flushes[k].body)) :
      /\ Len(StripNL(Slice(flushes[k].body, Blocks(flushes[k].body)[b][1],
                           Blocks(flushes[k].body)[b][2])))
           = MAX_CONTENT_LEN - Len(flushes[k].header)
      /\ Cardinality(ChunksIn(k, Blocks(flushes[k].body)[b][1],
                              Blocks(flushes[k].body)[b][2])) = 2

\* ------------------------------------------------------------------- C8
\* the display name of the Chapter header at line j (1-based)
ChapterNameAt(j, m) ==
  IF Strip(m.title) # <<>>
  THEN <<"C", " ">> \o Strip(m.num) \o <<".", " ">> \o Strip(m.title)
  ELSE IF j < Len(lines) /\ NotHeader(lines[j + 1])
       THEN <<"C", " ">> \o Strip(m.num) \o <<".", " ">> \o lines[j + 1]
       ELSE <<"C", " ">> \o Strip(m.num)

\* C8: a step of the scan over a Chapter header sets the chapter name from
\* the inline title, else from the one next line when that line is no
\* header, else bare, and moves the position by one line only.
C8_ChapterName ==
  [][(pc = "scan" /\ ~end_reached /\ i < Len(lines) /\ pc' = "scan"
      /\ ChapterMatch(lines[i + 1]).matched)
     => /\ i' = i + 1
        /\ current_chapter' = ChapterNameAt(i + 1, ChapterMatch(lines[i + 1]))]_vars

\* a Chapter header without inline title took the next line as its title,
\* and that line was then met at its own turn
C8_Witness ==
  \E j \in 1..(Len(lines) - 1) :
    /\ ChapterMatch(lines[j]).matched
    /\ Strip(ChapterMatch(lines[j]).title) = <<>>
    /\ NotHeader(lines[j + 1])
    /\ i >= j + 1
    /\ current_chapter = <<"C", " ">> \o Strip(ChapterMatch(lines[j]).num)
                           \o <<".", " ">> \o lines[j + 1]

\* ------------------------------------------------------------------- C9
\* C9: every iteration of the loop of split_long_text_at_sentence ends the
\* loop or moves its position forward.
C9_SplitAdvances ==
  [][(pc = "in_split" /\ sl_parts' # sl_parts)
     => (pc' = "split_done" \/ sl_i' > sl_i)]_vars

\* ------------------------------------------------------------------ C10
\* an Article header among the lines met by the scan
ArticleMet ==
  \E j \in 1..(IF i < Len(lines) THEN i ELSE Len(lines)) :
    ~parse_chapter_inline(lines[j]).matched /\ is_article_header(lines[j]).matched

\* C10: chunk_by_articles returns no chunk if and only if it met no Article
\* header; with no chunk main aborts and nothing is written.
C10_EmptyIffNoArticle ==
  /\ Halted => (chunks = <<>> <=> ~ArticleMet)
  /\ pc = "written" => chunks # <<>>
  /\ (pc = "aborted" /\ lines # <<>>) => chunks = <<>>

\* ------------------------------------------------------------------ C11
\* the 0-based positions of the Article header lines met by the scan
ArticlesMet ==
  {j \in 0..(i - 1) : ~ChapterMatch(lines[j + 1]).matched
                      /\ ArticleMatch(lines[j + 1]).matched}

\* is the 1-based line p one that closes an open article
Closes(p) ==
  \/ IsSubstring(SENTINEL, lines[p])
  \/ ~NotHeader(lines[p])

\* the 0-based position at which the article opened at position a is
\* flushed: the next header or end marker line, or the end of the input
FirstClose(closing) == IF closing = {} THEN Len(lines) ELSE SetMin(closing) - 1

ClosedAt(a) == FirstClose({p \in (a + 2)..Len(lines) : Closes(p)})

FlushesOf(a) == {k \in FlushIds : flushes[k].art = a}

FlushedOnceAmong(met) ==
  /\ \A k \in FlushIds :
       /\ flushes[k].art \in met
       /\ flushes[k].at = ClosedAt(flushes[k].art)
  /\ \A a \in met :
       /\ Cardinality(FlushesOf(a)) <= 1
       /\ (a # art_idx \/ Halted) => Cardinality(FlushesOf(a)) = 1

\* C11: every article opened by an Article header is flushed exactly once,
\* at the next Chapter header, Article header or end marker or at the end of
\* the input, whichever comes first; none is flushed twice and, once the
\* scan has returned, none is left without its flush.
C11_FlushedOnce == FlushedOnceAmong(ArticlesMet)

\* an article closed by a Chapter header and a later one closed by the end
\* marker were each flushed once, and the scan has returned
C11_Witness ==
  /\ Halted
  /\ end_reached
  /\ Len(flushes) = 2
  /\ flushes[1].why = "chapter"
  /\ flushes[2].why = "end_marker"

\* ------------------------------------------------------------------ C12
\* the 1-based positions of the Chapter header lines ahead of the 0-based
\* position a
ChaptersAhead(a) == {j \in 1..a : ChapterMatch(lines[j]).matched}

\* the display name of the last of the Chapter headers at the positions js,
\* the empty string when there is none
LastChapterName(js) ==
  IF js = {} THEN <<>>
  ELSE ChapterNameAt(SetMax(js), ChapterMatch(lines[SetMax(js)]))

ChapterFieldIs(k, name) ==
  /\ flushes[k].chapter = name
  /\ \A c \in ChunkIds(k) : chunks[c].chapter = name

\* C12: the chapter field of every chunk is the display name of the last
\* Chapter header ahead of the chunk's Article header, or the empty string
\* when there is none; all chunks of an article carry the same value, and a
\* later Chapter header does not change it.
C12_ChapterField ==
  \A k \in FlushIds :
    ChapterFieldIs(k, LastChapterName(ChaptersAhead(flushes[k].art)))

\* an article under a chapter was closed by the header of another chapter,
\* and its chunks keep the name of the first
C12_Witness ==
  /\ Len(flushes) >= 1
  /\ flushes[1].why = "chapter"
  /\ flushes[1].n >= 1
  /\ flushes[1].chapter # <<>>
  /\ current_chapter # None
  /\ current_chapter # flushes[1].chapter
  /\ chunks[1].chapter = flushes[1].chapter

\* ------------------------------------------------------------------ C13
\* C13: the offset recorded for a part of a sentence split, the lengths of
\* the parts ahead of it summed, is the position at which the part begins;
\* in the loop that is the position the next part is cut from.
C13_OffsetIsStart ==
  (pc = "in_split" /\ sl_limit >= 1 /\ sl_i < Len(sl_text))
    => PartOffset(sl_parts, Len(sl_parts) + 1) = sl_i

\* ------------------------------------------------------------------ C14
\* the right-most offset in lo..(hi - 1) at which text has the character ch,
\* -1 when there is none
Rightmost(text, ch, lo, hi) ==
  IF \E p \in lo..(hi - 1) : text[p + 1] = ch
  THEN SetMax({p \in lo..(hi - 1) : text[p + 1] = ch})
  ELSE -1

\* the cut chosen in the window lo..(end - 1): after the right-most period,
\* else after the right-most line break, else the hard cut at end
PreferredCut(text, lo, end) ==
  IF Rightmost(text, ".", lo, end) # -1 THEN Rightmost(text, ".", lo, end) + 1
  ELSE IF Rightmost(text, "\n", lo, end) # -1
       THEN Rightmost(text, "\n", lo, end) + 1
       ELSE end

\* an iteration at position sl_i whose window ends at end and whose cut,
\* when the rest does not fit, is at cut
CutStep(end, cut) ==
  IF end = Len(sl_text)
  THEN /\ pc' = "split_done"
       /\ sl_parts' = Append(sl_parts, RStrip(Slice(sl_text, sl_i, Len(sl_text))))
       /\ Len(sl_text) - sl_i <= sl_limit
  ELSE /\ pc' = "in_split"
       /\ sl_i' = cut
       /\ sl_parts' = Append(sl_parts, RStrip(Slice(sl_text, sl_i, cut)))
       /\ cut - sl_i <= sl_limit
       /\ cut > sl_i

Iterates ==
  pc = "in_split" /\ sl_limit >= 1 /\ sl_i < Len(sl_text) /\ sl_parts' # sl_parts

\* C14, as stated: with limit >= 1 every part has at most limit characters
\* and every cut is just after the right-most period within the next limit
\* characters, else just after the right-most line break within them, else
\* limit characters on; the last part is what remains once it fits.
C14_CutAsStated ==
  [][Iterates =>
       CutStep(MinOf(sl_i + sl_limit, Len(sl_text)),
               PreferredCut(sl_text, sl_i,
                            MinOf(sl_i + sl_limit, Len(sl_text))))]_vars

\* C14, amended: the same, the period and the line break being looked for
\* strictly after the current position: one at the current position itself
\* is no cut point.
C14_Cut ==
  [][Iterates =>
       CutStep(MinOf(sl_i + sl_limit, Len(sl_text)),
               PreferredCut(sl_text, sl_i + 1,
                            MinOf(sl_i + sl_limit, Len(sl_text))))]_vars

\* a text that begins with a period was cut, and its first part is longer
\* than that period
C14_Witness ==
  /\ pc = "split_done"
  /\ sl_limit >= 2
  /\ sl_text # <<>>
  /\ sl_text[1] = "."
  /\ Len(sl_parts) >= 2
  /\ Len(sl_parts[1]) >= 2

\* ------------------------------------------------------------------ C15
\* the content of the part idx of a sentence-split block: the header line,
\* the clause title kt for a part after the first, the quoted title qt for a
\* part that begins inside a quote (in_quote) and does not begin with it,
\* and the part's text, which is piece without the white space around it
ContentOfPart(header, idx, piece, kt, qt, in_quote) ==
  JoinNL(<<header>> \o
         (IF idx > 1 /\ kt # None THEN <<kt>> ELSE <<>>) \o
         (IF in_quote /\ qt # None /\ qt # <<>>
             /\ Strip(qt) # Strip(FirstLine(piece))
          THEN <<qt>> ELSE <<>>))
  \o <<"\n">> \o Strip(piece)

\* chunk c is the part of the block text seg, found at seg_pos in the body,
\* that begins at the body offset offs[c] and ends at the body offset stop;
\* first is the chunk of the block's first part
PartAsStated(k, c, first, seg, seg_pos, stop) ==
  chunks[c].content =
    ContentOfPart(flushes[k].header, c - first + 1,
                  Slice(seg, offs[c] - seg_pos, stop - seg_pos),
                  leading_khoan_title(seg), first_quoted_title_line(seg),
                  is_offset_in_any_span(offs[c] - seg_pos, compute_quote_spans(seg)))

PartsAsStated(k, cs, seg, seg_pos) ==
  \A c \in cs :
    PartAsStated(k, c, SetMin(cs), seg, seg_pos,
                 IF c + 1 \in cs THEN offs[c + 1] ELSE seg_pos + Len(seg))

\* the block blk of the body of flush k, when it does not fit beside the
\* header and is sentence-split
BlockAsStated(k, body, blk) ==
  (Len(flushes[k].header) + 1 + Len(StripNL(Slice(body, blk[1], blk[2])))
     > MAX_CONTENT_LEN)
  => PartsAsStated(k, ChunksIn(k, blk[1], blk[2]),
                   StripNL(Slice(body, blk[1], blk[2])),
                   blk[1] + SkipClass(Slice(body, blk[1], blk[2]), 0, {"\n"}))

\* C15: the chunk of every part of a sentence-split block is the newline
\* join of the header line, the clause title if and only if the part is not
\* the first and the block begins with a clause marker line, the quoted
\* title if and only if the part begins inside a quote span, a quoted title
\* exists and differs from the part's first line, and the trimmed part.
C15_PartContent ==
  \A k \in FlushIds :
    FullLen(flushes[k]) > MAX_CONTENT_LEN =>
      \A b \in 1..Len(Blocks(flushes[k].body)) :
        BlockAsStated(k, flushes[k].body, Blocks(flushes[k].body)[b])

\* ------------------------------------------------------------------ C16
\* does a text of n characters fit in a chunk beside the header of h characters
FitsBeside(h, n) == h + 1 + n <= MAX_CONTENT_LEN

\* the text of block b of body
SegmentOf(body, blocks, b) == StripNL(Slice(body, blocks[b][1], blocks[b][2]))

\* the buffers that greedy coalescing emits for the block texts segs beside
\* a header of h characters, buf being the pending buffer
RECURSIVE Greedy(_, _, _)
Greedy(h, segs, buf) ==
  IF segs = <<>> THEN (IF buf # <<>> THEN <<buf>> ELSE <<>>)
  ELSE IF buf = <<>> THEN Greedy(h, Tail(segs), Head(segs))
  ELSE IF FitsBeside(h, Len(buf) + 1 + Len(Head(segs)))
       THEN Greedy(h, Tail(segs), buf \o <<"\n">> \o Head(segs))
       ELSE <<buf>> \o Greedy(h, Tail(segs), Head(segs))

\* the chunks of flush k that start in the blocks lo..hi, in order
RunChunks(k, blocks, lo, hi) ==
  SubSeq(chunks,
         SetMin(ChunksIn(k, blocks[lo][1], blocks[hi][2]) \cup {LastChunk(k) + 1}),
         SetMax(ChunksIn(k, blocks[lo][1], blocks[hi][2]) \cup {FirstChunk(k) - 1}))

\* lo..hi is a longest run of blocks that each fit beside the header
IsFitRun(h, body, blocks, lo, hi) ==
  /\ \A b \in lo..hi : FitsBeside(h, Len(SegmentOf(body, blocks, b)))
  /\ lo = 1 \/ ~FitsBeside(h, Len(SegmentOf(body, blocks, lo - 1)))
  /\ hi = Len(blocks) \/ ~FitsBeside(h, Len(SegmentOf(body, blocks, hi + 1)))

\* the chunks of such a run are the greedy buffers, each beside the header
\* and within T
RunIsGreedy(header, got, bufs) ==
  /\ Len(got) = Len(bufs)
  /\ \A j \in 1..Len(bufs) :
       /\ got[j].content = header \o <<"\n">> \o Strip(bufs[j])
       /\ FitsBeside(Len(header), Len(bufs[j]))

\* three blocks that each fit alone and of which no two fit together
ThreeApart(h, body, blocks) ==
  /\ Len(blocks) = 3
  /\ \A b \in 1..3 : FitsBeside(h, Len(SegmentOf(body, blocks, b)))
  /\ \A b \in 1..2 : ~FitsBeside(h, Len(SegmentOf(body, blocks, b)) + 1
                                     + Len(SegmentOf(body, blocks, b + 1)))

CoalescedIn(k, header, body, blocks) ==
  /\ \A lo \in 1..Len(blocks) : \A hi \in lo..Len(blocks) :
       IsFitRun(Len(header), body, blocks, lo, hi) =>
         RunIsGreedy(header, RunChunks(k, blocks, lo, hi),
                     Greedy(Len(header),
                            [b \in 1..(hi - lo + 1) |->
                               SegmentOf(body, blocks, lo + b - 1)],
                            <<>>))
  /\ ThreeApart(Len(header), body, blocks) =>
       /\ flushes[k].n = 3
       /\ \A b \in 1..3 :
            chunks[FirstChunk(k) + b - 1].content =
              header \o <<"\n">> \o Strip(SegmentOf(body, blocks, b))

\* C16: a block that fits alone joins the pending buffer whenever the two
\* together still fit beside the header, and starts a new chunk only when
\* they do not; every buffer fits beside the header; three blocks that each
\* fit alone and of which no two fit together give exactly three chunks.
C16_Coalescing ==
  \A k \in FlushIds :
    FullLen(flushes[k]) > MAX_CONTENT_LEN =>
      CoalescedIn(k, flushes[k].header, flushes[k].body, Blocks(flushes[k].body))

\* an article of three clause blocks, each fitting alone and no two
\* together, came back in three chunks
C16_Witness ==
  \E k \in FlushIds :
    /\ FullLen(flushes[k]) > MAX_CONTENT_LEN
    /\ ThreeApart(Len(flushes[k].header), flushes[k].body, Blocks(flushes[k].body))
    /\ flushes[k].n = 3

\* ------------------------------------------------------------------ C17
\* the offset of the first end marker in a line
FirstMarker(line) ==
  CHOOSE p \in 0..Len(line) :
    /\ OccursAt(line, SENTINEL, p)
    /\ \A r \in 0..(p - 1) : ~OccursAt(line, SENTINEL, r)

\* the text ahead of the first end marker in a line
BeforeMarker(line) == SubSeq(line, 1, FirstMarker(line))

IsBlank(s) == \A p \in 1..Len(s) : s[p] \in WS

\* the article body when the scan stopped at an inline end marker: the lines
\* after the header, and the text ahead of the marker, without its trailing
\* white space, when that text is not blank
BodyAsStated(f, before) ==
  IF IsBlank(before) THEN LinesBetween(f)
  ELSE Append(LinesBetween(f), RStrip(before))

InlineStop(f, before) ==
  /\ current_body = BodyAsStated(f, before)
  /\ f.body = Strip(JoinNL(BodyAsStated(f, before)))
  /\ f.header = current_article_full
  /\ f.art = art_idx
  /\ end_reached
  /\ Halted
  /\ i = f.at

\* C17: when a line that is not a header, read while an article is open, holds
\* the end marker but is not the end marker alone, the text ahead of the first
\* marker becomes the last body line of the article if it is not blank and
\* nothing is added if it is blank; the article is flushed and the scan has
\* halted; no chunk holds the marker, and the chunks of the article are those
\* of that body, so nothing of the marker line from the marker on is in them.
C17_InlineSentinel ==
  \A k \in FlushIds :
    (flushes[k].why = "end_marker" /\ ~EndAppendixLine(lines[flushes[k].at + 1])) =>
      /\ k = Len(flushes)
      /\ Len(chunks) = LastChunk(k)
      /\ IsSubstring(SENTINEL, lines[flushes[k].at + 1])
      /\ InlineStop(flushes[k], BeforeMarker(lines[flushes[k].at + 1]))
      /\ \A c \in 1..Len(chunks) : ~IsSubstring(SENTINEL, chunks[c].content)
      /\ SubSeq(chunks, FirstChunk(k), LastChunk(k)) =
           split_article_content(flushes[k].header, flushes[k].body,
                                 flushes[k].chapter)

\* an article with a body line was cut short by a line that holds text, the
\* end marker, text and the end marker again; its last chunk ends with the
\* text ahead of the first marker
C17_Witness ==
  /\ pc = "written"
  /\ \E k \in FlushIds :
       /\ flushes[k].why = "end_marker"
       /\ FirstMarker(lines[flushes[k].at + 1]) > 0
       /\ FirstMarker(lines[flushes[k].at + 1]) + 3 < Len(lines[flushes[k].at + 1])
       /\ flushes[k].at > flushes[k].art + 1
       /\ flushes[k].n > 0
       /\ current_body[Len(current_body)] = BeforeMarker(lines[flushes[k].at + 1])

\* ------------------------------------------------------------------ C18
IsChapterLine(j) == parse_chapter_inline(lines[j]).matched

\* the kind of the nearest header at or above line j
RECURSIVE HeaderAbove(_)
HeaderAbove(j) ==
  IF j < 1 THEN "none"
  ELSE IF IsChapterLine(j) THEN "chapter"
  ELSE IF is_article_header(lines[j]).matched THEN "article"
  ELSE HeaderAbove(j - 1)

\* line j is no header and the nearest header above it is a Chapter header
UnderChapter(j) ==
  /\ j \in 1..Len(lines)
  /\ HeaderAbove(j - 1) = "chapter"
  /\ NotHeader(lines[j])

\* the lines a flush took its body from: those after its header up to the
\* line it was flushed at, that line included
LinesUsed(f) == (f.art + 2)..(f.at + 1)

\* the builder right after the line at position i - 1: no article is open
\* and nothing is gathered
BuilderIdle ==
  /\ current_article_full = None
  /\ current_body = <<>>
  /\ art_idx = -1

\* C18: a Chapter header closes the open article. Once the scan has gone past
\* a Chapter header, or past a line under it that is no header, the builder
\* is idle; a line under a Chapter header, the end marker included, leaves the
\* open article, the gathered body, the chunks and the halt flag as they were
\* and the scan moves to the next line; and no flushed article took any of
\* its body from a line under a Chapter header, the line taken as the chapter
\* title included.
C18_ChapterCloses ==
  /\ [](/\ BuilderIdle \/ ~(i >= 1 /\ (IsChapterLine(i) \/ UnderChapter(i)))
        /\ \A k \in FlushIds : \A j \in LinesUsed(flushes[k]) : ~UnderChapter(j))
  /\ [][\/ /\ UNCHANGED <<current_article_full, current_body, chunks, flushes,
                           end_reached, pc>>
           /\ i' = i + 1
        \/ ~(pc = "scan" /\ i < Len(lines) /\ UnderChapter(i + 1))]_vars

\* an article with chunks was closed by a Chapter header, the line under the
\* header holds the end marker, and the scan went on to a later article that
\* came back with chunks too
C18_Witness ==
  /\ pc = "written"
  /\ ~end_reached
  /\ \E k \in FlushIds :
       /\ flushes[k].why = "chapter"
       /\ flushes[k].n > 0
       /\ flushes[k].at + 2 <= Len(lines)
       /\ UnderChapter(flushes[k].at + 2)
       /\ EndAppendixAny(lines[flushes[k].at + 2]) # -1
       /\ k < Len(flushes)
       /\ flushes[k + 1].n > 0

\* ------------------------------------------------------------------ C19
\* the numbers of open markers still unmatched ahead of the offsets p,
\* p + 1, ... up to the end of the text, n of them being unmatched ahead of p
RECURSIVE UnmatchedFrom(_, _, _)
UnmatchedFrom(text, p, n) ==
  IF p >= Len(text) THEN <<n>>
  ELSE <<n>> \o UnmatchedFrom(text, p + 1,
                              IF text[p + 1] = "q" THEN n + 1
                              ELSE IF text[p + 1] = "Q" /\ n > 0 THEN n - 1
                              ELSE n)

\* Unmatched(text)[p + 1]: the open markers still unmatched ahead of offset p
Unmatched(text) == UnmatchedFrom(text, 0, 0)

\* the open marker at offset o is still unmatched ahead of offset c
OpenUntil(text, h, o, c) ==
  /\ o >= 0 /\ o < c
  /\ text[o + 1] = "q"
  /\ \A m \in (o + 1)..c : h[m + 1] > h[o + 1]

\* the closed spans as stated: the close marker at c closes the most recent
\* open marker still unmatched
ClosedAmong(text, h) ==
  { [s |-> oc[1], e |-> oc[2] + 1, kind |-> "curly"] :
      oc \in { oc \in (0..(Len(text) - 1)) \X (0..(Len(text) - 1)) :
                /\ text[oc[2] + 1] = "Q"
                /\ OpenUntil(text, h, oc[1], oc[2])
                /\ \A o2 \in (oc[1] + 1)..(oc[2] - 1) :
                     ~OpenUntil(text, h, o2, oc[2]) } }

ClosedAsStated(text) == ClosedAmong(text, Unmatched(text))

\* the open-ended spans as stated: one for each open marker left unmatched
OpenAmong(text, h) ==
  { [s |-> o, e |-> -1, kind |-> "curly"] :
      o \in { o2 \in 0..(Len(text) - 1) : OpenUntil(text, h, o2, Len(text)) } }

OpenAsStated(text) == OpenAmong(text, Unmatched(text))

KindOf(spans, kind) == { spans[j] : j \in { m \in 1..Len(spans) : spans[m].kind = kind } }

NestedOrDisjoint(a, b) ==
  \/ a.e <= b.s
  \/ b.e <= a.s
  \/ (a.s < b.s /\ b.e < a.e)
  \/ (b.s < a.s /\ a.e < b.e)

InSomeSpan(x, S) ==
  \E sp \in S : IF sp.e = -1 THEN x >= sp.s ELSE sp.s <= x /\ x < sp.e

StatedSpans(text, spans, closed, open, curly) ==
  /\ curly = closed \cup open
  /\ Cardinality({ m \in 1..Len(spans) : spans[m].kind = "curly" }) = Cardinality(curly)
  /\ \A a, b \in closed : a # b => NestedOrDisjoint(a, b)
  /\ \A x \in 0..(Len(text) + 1) :
       is_offset_in_any_span(x, spans) <=>
         InSomeSpan(x, closed \cup open \cup KindOf(spans, "dbl"))

SpansAsStated(text, spans) ==
  StatedSpans(text, spans, ClosedAsStated(text), OpenAsStated(text),
              KindOf(spans, "curly"))

\* C19: in the body text of every flushed article, compute_quote_spans gives
\* one closed curly span [o, c + 1) for each close marker at c that has an
\* open marker still unmatched ahead of it, o being the most recent of them,
\* none for a close marker that has no such open marker, and one open-ended
\* span for each open marker left unmatched at the end; the closed curly spans
\* are pairwise nested or disjoint; and is_offset_in_any_span(x) holds exactly
\* when x is in the half-open interval of a closed span or at or after the
\* start of an open-ended one.
C19_StackPairing ==
  \A k \in FlushIds :
    SpansAsStated(flushes[k].body, compute_quote_spans(flushes[k].body))

\* a flushed body holds a close marker with nothing to close, a pair nested
\* in another, and an open marker left unmatched
C19_Witness ==
  /\ pc = "written"
  /\ \E k \in FlushIds :
       /\ \E a, b \in ClosedAsStated(flushes[k].body) : a.s < b.s /\ b.e < a.e
       /\ OpenAsStated(flushes[k].body) # {}
       /\ \E c \in 1..Len(flushes[k].body) :
            flushes[k].body[c] = "Q" /\ Unmatched(flushes[k].body)[c] = 0

\* ------------------------------------------------------------------ C20
\* the context lines that can stand between the header line and the text of
\* a chunk cut from the block text seg: the clause title, the quoted title,
\* or both, each on a line of its own
ContextOf(kt, qt) ==
  { (IF x THEN <<"\n">> \o kt ELSE <<>>) \o (IF y THEN <<"\n">> \o qt ELSE <<>>) :
      <<x, y>> \in { xy \in BOOLEAN \X BOOLEAN :
                      /\ xy[1] => kt # None
                      /\ xy[2] => qt # None } }

InjectedOver(body, blocks) ==
  UNION { ContextOf(leading_khoan_title(SegmentOf(body, blocks, b)),
                    first_quoted_title_line(SegmentOf(body, blocks, b))) :
            b \in 1..Len(blocks) }

InjectedLines(body) == InjectedOver(body, Blocks(body))

\* the body text of chunk c of flush k: from the offset the chunk starts at
\* to the offset the next chunk of the article starts at, or to the end
PieceOf(k, c) ==
  Slice(flushes[k].body, offs[c],
        IF c < LastChunk(k) THEN offs[c + 1] ELSE Len(flushes[k].body))

\* chunk c is the header line, context lines, and its piece of the body
\* without the white space around it
HoldsPiece(k, c, inj) ==
  \/ chunks[c].content = flushes[k].header \o <<"\n">> \o Strip(PieceOf(k, c))
  \/ \E x \in inj :
       chunks[c].content = flushes[k].header \o x \o <<"\n">> \o Strip(PieceOf(k, c))

Partitioned(k, inj) ==
  /\ flushes[k].n >= 1
  /\ IsBlank(Slice(flushes[k].body, 0, offs[FirstChunk(k)]))
  /\ \A c \in ChunkIds(k) :
       /\ c < LastChunk(k) => offs[c] < offs[c + 1]
       /\ offs[c] < Len(flushes[k].body)
       /\ HoldsPiece(k, c, inj)

\* C20: splitting loses and duplicates no body text. The chunks of a flushed
\* article with a body, taken in order, cut the body into consecutive pieces
\* that start at increasing offsets and cover it to its end, only white space
\* lying ahead of the first; each chunk is the header line, then clause-title
\* and quoted-title lines if any, then its piece without the white space
\* around it. An article without a body gives its header line alone.
C20_NoLossNoDup ==
  /\ Len(offs) = Len(chunks)
  /\ \A k \in FlushIds :
       IF flushes[k].body = <<>>
       THEN \A c \in ChunkIds(k) : chunks[c].content = flushes[k].header
       ELSE Partitioned(k, InjectedLines(flushes[k].body))

\* an article came back in three chunks or more, the clause title put ahead
\* of one of them, and white space of the body fell between two pieces
C20_Witness ==
  /\ pc = "written"
  /\ \E k \in FlushIds :
       /\ flushes[k].n >= 3
       /\ \E c \in ChunkIds(k) :
            chunks[c].content # flushes[k].header \o <<"\n">> \o Strip(PieceOf(k, c))
       /\ \E c \in ChunkIds(k) : Strip(PieceOf(k, c)) # PieceOf(k, c)

============================================================================
